---- MODULE Spec2Model ----
(***************************************************************************)
(* Model of hvisor's GICv3 virtualization engine                           *)
(* (src/src/device/irqchip/gicv3/mod.rs): the per-core list-register pool, *)
(* the acknowledge / deactivate protocol, the dispatcher, per-core init    *)
(* and shutdown, and the process-wide controller descriptor.               *)
(*                                                                         *)
(* 64-bit registers are kept as records of their architectural bit fields, *)
(* because the values (1 << 62, pmr << 24) do not fit the model checker's  *)
(* integers.  ICH_LR<n>_EL2 = [State (63:62), HW (61), Group (60),         *)
(* pINTID (44:32), vINTID (31:0)]; ICH_VTR_EL2 = [PRIbits (31:29),         *)
(* ListRegs (4:0)]; ICH_VMCR_EL2 = [VPMR (31:24), VEOIM (9), VENG1 (1)].   *)
(***************************************************************************)
EXTENDS Integers, Sequences, FiniteSets, TLC

VARIABLES
    vtr,        \* ICH_VTR_EL2 of this core (read-only capability register)
    lr,         \* ICH_LR<n>_EL2 of this core, n in 0 .. lr_num-1
    ap1r,       \* ICH_AP1R<n>_EL2 of this core, n in 0 .. 3
    icc,        \* ICC_CTLR_EL1, ICC_PMR_EL1, ICC_IGRPEN1_EL1, ICH_VMCR_EL2, ICH_HCR_EL2
    pc,         \* "run", "spin" (halted in loop {}) or "panic"
    last,       \* the last operation: [op, arg, ret]
    log,        \* register accesses and calls of the last operation, in order
    hist,       \* inject_irq calls since the empty pool, while nothing was retired
    GIC,        \* the Once<Gic> cell: [set, gic]
    suspend_cpu, \* the suspend_cpu flag of this core's PerCpu
    cpus,       \* the banked registers of every core, when several cores run
    boot        \* the boot of all cores in rust_main: counters, flags, positions

vars == <<vtr, lr, ap1r, icc, pc, last, log, hist, GIC, suspend_cpu, cpus, boot>>

-----------------------------------------------------------------------------
(* Bounds of the model *)

\* largest ListRegs field of ICH_VTR_EL2 explored (lr_num = ListRegs + 1)
MaxListRegs == 2
\* host_gicr_base is called with core indices 0 .. MAX_CPU_NUM + MaxExtraCpu
MaxExtraCpu == 2

\* PRIbits fields of ICH_VTR_EL2 explored (priority bits = PRIbits + 1)
PriBitsValues == {4, 6}
\* values ICC_PMR_EL1 may hold before per-core init
PmrResetValues == {0, 240}
\* raw values read from ICC_IAR1_EL1 by the dispatcher
IarValues == {1, 9, 14, 15, 33, 1022}
\* ids handed to inject_irq directly
InjectIds == {0, 1, 33}

-----------------------------------------------------------------------------
(* Program constants *)

LR_VIRTIRQ_MASK == 1023
PER_GICR_SIZE == 131072
SPURIOUS_MIN == 1022
SGI_LIMIT == 16
PMR_VALUE == 240
MAX_CPU_NUM == 4
SGI_EVENT_ID == 15
SGI_RESUME_ID == 14

-----------------------------------------------------------------------------
(* Register values *)

\* an Invalid (all-zero) list register
ZeroLr == [State |-> 0, HW |-> 0, Group |-> 0, pINTID |-> 0, vINTID |-> 0]

\* the value inject_irq composes for irq_id
\* val = irq_id | 1 << 60 | 1 << 62 | 1 << 61 | irq_id << 32
LrVal(irq_id) ==
    [State |-> 1, HW |-> 1, Group |-> 1, pINTID |-> irq_id, vINTID |-> irq_id]

\* lr_num without the mask: vtr + 1
LrNum_nomask(v) == v.ListRegs + 1

\* lr_num = (vtr & 0xf) + 1
LrNum(v) == (v.ListRegs % 16) + 1

\* ICH_ELRSR_EL2: bit i is set iff list register i holds no valid interrupt
ELRSR(l) == {i \in DOMAIN l : l[i].State = 0}

\* one entry of the log
Ev(op, reg, idx, val) == [op |-> op, reg |-> reg, idx |-> idx, val |-> val]

-----------------------------------------------------------------------------
(* List Register Pool: inject_irq *)

\* read_lr / write_lr: the match arm for index id; indices above 15 spin
LrIndexOk(id) == id \in 0..15

\* The scan loop of inject_irq, from index i on, with the candidate lr_idx
\* found so far (-1: none).  Result: [how, lr_idx] with how = "dup" (the early
\* return), "over" (read_lr spun on an index above 15) or "done".
RECURSIVE InjectScan(_, _, _, _, _)
InjectScan(i, lr_idx, lr_num, elsr, irq_id) ==
    IF i >= lr_num THEN [how |-> "done", lr_idx |-> lr_idx]
    ELSE IF i \in elsr
         THEN InjectScan(i + 1, IF lr_idx = -1 THEN i ELSE lr_idx, lr_num, elsr, irq_id)
    ELSE IF ~LrIndexOk(i) THEN [how |-> "over", lr_idx |-> lr_idx]
    ELSE IF (i % (LR_VIRTIRQ_MASK + 1)) = irq_id THEN [how |-> "dup", lr_idx |-> lr_idx]
    ELSE InjectScan(i + 1, lr_idx, lr_num, elsr, irq_id)

\* inject_irq writing slot 0 whatever the empty-slot bitmap reports
inject_irq_slot0(l, v, irq_id) ==
    LET scan == InjectScan(0, -1, LrNum(v), ELRSR(l), irq_id) IN
    IF scan.how = "dup" THEN [lr |-> l, halt |-> FALSE, log |-> <<>>]
    ELSE IF scan.how = "over"
         THEN [lr |-> l, halt |-> TRUE, log |-> <<>>]
    ELSE [lr   |-> [l EXCEPT ![0] = LrVal(irq_id)],
          halt |-> FALSE,
          log  |-> <<Ev("write", "ich_lr_el2", 0, LrVal(irq_id))>>]

\* inject_irq(irq_id) on list registers l under capability register v:
\* [lr: the list registers afterwards, halt: whether the core spins,
\*  log: the register writes]
inject_irq(l, v, irq_id) ==
    LET scan == InjectScan(0, -1, LrNum(v), ELRSR(l), irq_id) IN
    IF scan.how = "dup" THEN [lr |-> l, halt |-> FALSE, log |-> <<>>]
    ELSE IF scan.how = "over" \/ scan.lr_idx = -1
         THEN [lr |-> l, halt |-> TRUE, log |-> <<>>]
    ELSE [lr   |-> [l EXCEPT ![scan.lr_idx] = LrVal(irq_id)],
          halt |-> FALSE,
          log  |-> <<Ev("write", "ich_lr_el2", scan.lr_idx, LrVal(irq_id))>>]

-----------------------------------------------------------------------------
(* Acknowledge / Deactivate protocol *)

\* pending_irq with the spurious test off by one (iar > 0x3fe)
pending_irq_offbyone(iar) ==
    IF iar > SPURIOUS_MIN THEN [some |-> FALSE, val |-> 0]
    ELSE [some |-> TRUE, val |-> iar]

\* pending_irq: the Option<usize> made of the raw acknowledge value
pending_irq(iar) ==
    IF iar >= SPURIOUS_MIN THEN [some |-> FALSE, val |-> 0]
    ELSE [some |-> TRUE, val |-> iar]

\* deactivate_irq with the software-generated range off by one (irq_id <= 16)
deactivate_irq_offbyone(irq_id) ==
    <<Ev("write", "icc_eoir1_el1", 0, irq_id)>>
    \o (IF irq_id <= SGI_LIMIT THEN <<Ev("write", "icc_dir_el1", 0, irq_id)>> ELSE <<>>)

\* deactivate_irq: its register writes, in order
deactivate_irq(irq_id) ==
    <<Ev("write", "icc_eoir1_el1", 0, irq_id)>>
    \o (IF irq_id < SGI_LIMIT THEN <<Ev("write", "icc_dir_el1", 0, irq_id)>> ELSE <<>>)

-----------------------------------------------------------------------------
(* Dispatcher *)

Call(name, arg) == Ev("call", name, 0, arg)

\* e is an access of kind op to reg
IsEv(e, op, reg) == e.op = op /\ e.reg = reg

\* the re-injecting branches with the two calls swapped:
\* inject_irq(id); deactivate_irq(id)
ReinjectPath_swapped(l, v, ack, id) ==
    LET inj == inject_irq(l, v, id) IN
    [lr   |-> inj.lr,
     halt |-> inj.halt,
     log  |-> ack \o <<Call("inject_irq", id)>> \o inj.log
                  \o (IF inj.halt THEN <<>>
                      ELSE <<Call("deactivate_irq", id)>> \o deactivate_irq(id))]

\* the two re-injecting branches: deactivate_irq(id); inject_irq(id)
ReinjectPath(l, v, ack, id) ==
    LET inj == inject_irq(l, v, id) IN
    [lr   |-> inj.lr,
     halt |-> inj.halt,
     log  |-> ack \o <<Call("deactivate_irq", id)>> \o deactivate_irq(id)
                  \o <<Call("inject_irq", id)>> \o inj.log]

\* the SGI_EVENT_ID branch: check_events(); deactivate_irq(id)
EventPath(l, ack, id) ==
    [lr   |-> l,
     halt |-> FALSE,
     log  |-> ack \o <<Call("check_events", 0)>>
                  \o <<Call("deactivate_irq", id)>> \o deactivate_irq(id)]

\* gicv3_handle_irq_el1 deactivating the ids of 8..15 it does not know
gicv3_handle_irq_el1_deactall(l, v, iar) ==
    LET ack == <<Ev("read", "icc_iar1_el1", 0, iar)>>
        p   == pending_irq(iar)
        id  == p.val
        drop == [lr |-> l, halt |-> FALSE,
                 log |-> ack \o <<Call("deactivate_irq", id)>> \o deactivate_irq(id)]
    IN
    IF ~p.some THEN [lr |-> l, halt |-> FALSE, log |-> ack]
    ELSE IF id < SGI_LIMIT THEN
        IF id < 8 THEN ReinjectPath(l, v, ack, id)
        ELSE IF id = SGI_EVENT_ID THEN EventPath(l, ack, id)
        ELSE IF id = SGI_RESUME_ID THEN [lr |-> l, halt |-> FALSE, log |-> ack]
        ELSE drop
    ELSE ReinjectPath(l, v, ack, id)

\* gicv3_handle_irq_el1 with raw acknowledge value iar on list registers l:
\* [lr, halt, log]
gicv3_handle_irq_el1(l, v, iar) ==
    LET ack == <<Ev("read", "icc_iar1_el1", 0, iar)>>
        p   == pending_irq(iar)
        id  == p.val
    IN
    IF ~p.some THEN [lr |-> l, halt |-> FALSE, log |-> ack]
    ELSE IF id < SGI_LIMIT THEN
        IF id < 8 THEN ReinjectPath(l, v, ack, id)
        ELSE IF id = SGI_EVENT_ID THEN EventPath(l, ack, id)
        ELSE IF id = SGI_RESUME_ID THEN [lr |-> l, halt |-> FALSE, log |-> ack]
        ELSE [lr |-> l, halt |-> FALSE, log |-> ack]
    ELSE ReinjectPath(l, v, ack, id)

-----------------------------------------------------------------------------
(* CPU Interface Programmer and Shutdown *)

\* irqchip_cpu_init leaving EOI mode 0 (priority drop deactivates)
irqchip_cpu_init_eoimode0(c) ==
    LET pmr  == c.pmr
        vmcr == [VPMR |-> pmr % 256, VENG1 |-> 1, VEOIM |-> 1]
    IN
    [icc |-> [ctlr |-> 0, pmr |-> PMR_VALUE, igrpen1 |-> 1, vmcr |-> vmcr, hcr |-> 1],
     log |-> << Call("smc", 0),
                Ev("read", "icc_ctlr_el1", 0, c.ctlr),
                Ev("write", "icc_ctlr_el1", 0, 0),
                Ev("read", "icc_ctlr_el1", 0, 0),
                Ev("read", "icc_pmr_el1", 0, c.pmr),
                Ev("write", "icc_pmr_el1", 0, PMR_VALUE),
                Ev("read", "icc_igrpen1_el1", 0, c.igrpen1),
                Ev("write", "icc_igrpen1_el1", 0, 1),
                Ev("read", "ich_vtr_el2", 0, 0),
                Ev("write", "ich_vmcr_el2", 0, vmcr),
                Ev("write", "ich_hcr_el2", 0, 1) >>]

\* irqchip_cpu_init on the CPU-interface registers c: [icc, log]
irqchip_cpu_init(c) ==
    LET pmr  == c.pmr
        vmcr == [VPMR |-> pmr % 256, VENG1 |-> 1, VEOIM |-> 1]
    IN
    [icc |-> [ctlr |-> 2, pmr |-> PMR_VALUE, igrpen1 |-> 1, vmcr |-> vmcr, hcr |-> 1],
     log |-> << Call("smc", 0),
                Ev("read", "icc_ctlr_el1", 0, c.ctlr),
                Ev("write", "icc_ctlr_el1", 0, 2),
                Ev("read", "icc_ctlr_el1", 0, 2),
                Ev("read", "icc_pmr_el1", 0, c.pmr),
                Ev("write", "icc_pmr_el1", 0, PMR_VALUE),
                Ev("read", "icc_igrpen1_el1", 0, c.igrpen1),
                Ev("write", "icc_igrpen1_el1", 0, 1),
                Ev("read", "ich_vtr_el2", 0, 0),
                Ev("write", "ich_vmcr_el2", 0, vmcr),
                Ev("write", "ich_hcr_el2", 0, 1) >>]

\* the active-priority registers gicv3_clear_pending_irqs writes for
\* num_priority_bits
ClearedApRegs_onemore(num_priority_bits) ==
    {0}
    \cup (IF num_priority_bits >= 5 THEN {1} ELSE {})
    \cup (IF num_priority_bits > 5 THEN {2, 3} ELSE {})

ClearedApRegs(num_priority_bits) ==
    (IF num_priority_bits >= 5 THEN {0} ELSE {})
    \cup (IF num_priority_bits >= 6 THEN {1} ELSE {})
    \cup (IF num_priority_bits > 6 THEN {2, 3} ELSE {})

\* gicv3_clear_pending_irqs on list registers l and active-priority
\* registers a: [lr, ap1r, halt, log]; no function of the module calls it
gicv3_clear_pending_irqs(l, a, v) ==
    LET lr_num == LrNum(v)
        num_priority_bits == v.PRIbits + 1
        cleared == ClearedApRegs(num_priority_bits)
        rd == <<Ev("read", "ich_vtr_el2", 0, 0)>>
        lrw == [k \in 1..lr_num |-> Ev("write", "ich_lr_el2", k - 1, ZeroLr)]
        apw == [k \in 1..Cardinality(cleared) |-> Ev("write", "ich_ap1r_el2", k - 1, 0)]
    IN
    IF \E i \in 0..(lr_num - 1) : ~LrIndexOk(i)
    THEN [lr   |-> [i \in DOMAIN l |-> IF LrIndexOk(i) THEN ZeroLr ELSE l[i]],
          ap1r |-> a,
          halt |-> TRUE,
          log  |-> rd]
    ELSE [lr   |-> [i \in DOMAIN l |-> IF i < lr_num THEN ZeroLr ELSE l[i]],
          ap1r |-> [n \in DOMAIN a |-> IF n \in cleared THEN 0 ELSE a[n]],
          halt |-> FALSE,
          log  |-> rd \o lrw \o apw]

\* gicv3_cpu_shutdown: it reads three registers for the debug line and
\* writes none
gicv3_cpu_shutdown(c) ==
    << Ev("read", "icc_ctlr_el1", 0, c.ctlr),
       Ev("read", "icc_pmr_el1", 0, c.pmr),
       Ev("read", "ich_hcr_el2", 0, c.hcr) >>

-----------------------------------------------------------------------------
(* The state machine of one core *)

Ret(ok, val) == [ok |-> ok, val |-> val]
Last(op, arg, ret) == [op |-> op, arg |-> arg, ret |-> ret]

NoGic == [set |-> FALSE,
          gic |-> [gicd_base |-> 0, gicr_base |-> 0, gicd_size |-> 0, gicr_size |-> 0]]

\* no boot in progress: the value of boot where rust_main is not modelled
NoBoot == [pc |-> <<>>]

\* the history once something was retired: nothing more is recorded
HistRetired == [ids |-> {}, repeat |-> FALSE, retired |-> TRUE]

\* the history after one more inject_irq(id) call
HistInject(h, id) ==
    IF h.retired THEN h
    ELSE [h EXCEPT !.ids = @ \cup {id}, !.repeat = @ \/ (id \in h.ids)]

\* the core out of reset: every list register Invalid, the CPU interface
\* disabled, the descriptor not yet discovered
Init ==
    /\ vtr \in [ListRegs : 0..MaxListRegs, PRIbits : PriBitsValues]
    /\ lr = [i \in 0..(LrNum(vtr) - 1) |-> ZeroLr]
    /\ ap1r = [n \in 0..3 |-> 0]
    /\ icc \in [ctlr : {0}, pmr : PmrResetValues, igrpen1 : {0},
                vmcr : {[VPMR |-> 0, VENG1 |-> 0, VEOIM |-> 0]}, hcr : {0}]
    /\ pc = "run"
    /\ last = Last("reset", 0, Ret(TRUE, 0))
    /\ log = <<>>
    /\ hist = [ids |-> {}, repeat |-> FALSE, retired |-> FALSE]
    /\ GIC = NoGic
    /\ suspend_cpu = FALSE
    /\ cpus = <<>>
    /\ boot = NoBoot

\* per-core init, run once on a core whose CPU interface is still disabled
CpuInit ==
    /\ pc = "run"
    /\ icc.igrpen1 = 0
    /\ LET r == irqchip_cpu_init(icc) IN
        /\ icc' = r.icc
        /\ log' = r.log
    /\ last' = Last("irqchip_cpu_init", 0, Ret(TRUE, 0))
    /\ UNCHANGED <<vtr, lr, ap1r, pc, hist, GIC, suspend_cpu, cpus, boot>>

\* the interrupt exception entry: Group-1 interrupts reach the core only
\* once ICC_IGRPEN1_EL1 is set; iar is what the acknowledge register returns
HandleIrq(iar) ==
    /\ pc = "run"
    /\ icc.igrpen1 = 1
    /\ LET r == gicv3_handle_irq_el1(lr, vtr, iar) IN
        /\ lr' = r.lr
        /\ pc' = IF r.halt THEN "spin" ELSE "run"
        /\ log' = r.log
        /\ last' = Last("gicv3_handle_irq_el1", iar, Ret(~r.halt, 0))
        /\ hist' = IF \E k \in 1..Len(r.log) : IsEv(r.log[k], "call", "inject_irq")
                   THEN HistInject(hist, iar) ELSE hist
    /\ UNCHANGED <<vtr, ap1r, icc, GIC, suspend_cpu, cpus, boot>>

\* one inject_irq(irq_id) call
InjectIrq(irq_id) ==
    /\ pc = "run"
    /\ icc.igrpen1 = 1
    /\ LET r == inject_irq(lr, vtr, irq_id) IN
        /\ lr' = r.lr
        /\ pc' = IF r.halt THEN "spin" ELSE "run"
        /\ log' = r.log
        /\ last' = Last("inject_irq", irq_id, Ret(~r.halt, 0))
    /\ hist' = HistInject(hist, irq_id)
    /\ UNCHANGED <<vtr, ap1r, icc, GIC, suspend_cpu, cpus, boot>>

\* per-core shutdown
Shutdown ==
    /\ pc = "run"
    /\ icc.igrpen1 = 1
    /\ log' = gicv3_cpu_shutdown(icc)
    /\ last' = Last("gicv3_cpu_shutdown", 0, Ret(TRUE, 0))
    /\ UNCHANGED <<vtr, lr, ap1r, icc, pc, hist, GIC, suspend_cpu, cpus, boot>>

\* hardware: the guest acknowledges the virtual interrupt of slot i
\* (Pending -> Active); its priority becomes the active priority
GuestAck(i) ==
    /\ pc = "run"
    /\ icc.hcr = 1
    /\ i \in DOMAIN lr
    /\ lr[i].State = 1
    /\ ap1r[0] = 0
    /\ lr' = [lr EXCEPT ![i].State = 2]
    /\ ap1r' = [ap1r EXCEPT ![0] = 1]
    /\ last' = Last("guest_ack", i, Ret(TRUE, 0))
    /\ log' = <<>>
    /\ UNCHANGED <<vtr, icc, pc, hist, GIC, suspend_cpu, cpus, boot>>

\* hardware: the guest retires the virtual interrupt of slot i
\* (Active -> Invalid)
GuestRetire(i) ==
    /\ pc = "run"
    /\ icc.hcr = 1
    /\ i \in DOMAIN lr
    /\ lr[i].State = 2
    /\ lr' = [lr EXCEPT ![i].State = 0]
    /\ ap1r' = [ap1r EXCEPT ![0] = 0]
    /\ last' = Last("guest_retire", i, Ret(TRUE, 0))
    /\ log' = <<>>
    /\ hist' = HistRetired
    /\ UNCHANGED <<vtr, icc, pc, GIC, suspend_cpu, cpus, boot>>

\* the cross-core event collaborator suspends this core: it sets the flag
\* the resume interrupt is meant to clear
Suspend ==
    /\ pc = "run"
    /\ icc.igrpen1 = 1
    /\ ~suspend_cpu
    /\ suspend_cpu' = TRUE
    /\ last' = Last("suspend", 0, Ret(TRUE, 0))
    /\ log' = <<>>
    /\ UNCHANGED <<vtr, lr, ap1r, icc, pc, hist, GIC, cpus, boot>>

Next ==
    \/ CpuInit
    \/ \E iar \in IarValues : HandleIrq(iar)
    \/ \E irq_id \in InjectIds : InjectIrq(irq_id)
    \/ Shutdown
    \/ \E i \in 0..15 : GuestAck(i)
    \/ \E i \in 0..15 : GuestRetire(i)
    \/ Suspend

Spec == Init /\ [][Next]_vars

-----------------------------------------------------------------------------
(* The acknowledge / deactivate protocol on its own: every raw acknowledge
   value is fed to pending_irq, and every id it yields to deactivate_irq *)

\* largest raw value of ICC_IAR1_EL1 explored
MaxRaw == 1023

\* the initial state of the specifications that leave the core's registers
\* alone: one core with a single list register
QuietCore ==
    /\ vtr = [ListRegs |-> 0, PRIbits |-> 4]
    /\ lr = [i \in 0..0 |-> ZeroLr]
    /\ ap1r = [n \in 0..3 |-> 0]
    /\ icc = [ctlr |-> 0, pmr |-> 0, igrpen1 |-> 0,
              vmcr |-> [VPMR |-> 0, VENG1 |-> 0, VEOIM |-> 0], hcr |-> 0]
    /\ pc = "run"
    /\ log = <<>>
    /\ hist = [ids |-> {}, repeat |-> FALSE, retired |-> FALSE]
    /\ GIC = NoGic
    /\ suspend_cpu = FALSE
    /\ cpus = <<>>

InitAck ==
    /\ QuietCore
    /\ boot = NoBoot
    /\ \E raw \in 0..MaxRaw : last = Last("input", raw, Ret(TRUE, 0))

\* pending_irq() with the acknowledge register reading last.arg
PendingIrq ==
    /\ last.op = "input"
    /\ last' = Last("pending_irq", last.arg, pending_irq(last.arg))
    /\ log' = <<Ev("read", "icc_iar1_el1", 0, last.arg)>>
    /\ UNCHANGED <<vtr, lr, ap1r, icc, pc, hist, GIC, suspend_cpu, cpus, boot>>

\* deactivate_irq(id) for an id the acknowledge yielded
DeactivateIrq ==
    /\ last.op = "input"
    /\ pending_irq(last.arg).some
    /\ last' = Last("deactivate_irq", last.arg, Ret(TRUE, 0))
    /\ log' = deactivate_irq(last.arg)
    /\ UNCHANGED <<vtr, lr, ap1r, icc, pc, hist, GIC, suspend_cpu, cpus, boot>>

NextAck == PendingIrq \/ DeactivateIrq

SpecAck == InitAck /\ [][NextAck]_vars

-----------------------------------------------------------------------------
(* The shutdown clearing routine on its own *)

\* the active-priority registers a core reporting num_priority_bits has
ImplementedApRegs(num_priority_bits) ==
    IF num_priority_bits >= 7 THEN {0, 1, 2, 3}
    ELSE IF num_priority_bits = 6 THEN {0, 1}
    ELSE {0}

\* a core about to be cleared: ICH_VTR_EL2 reports any value of the 3-bit
\* PRIbits field, list registers are Invalid or hold a pending interrupt,
\* implemented active-priority registers hold 0 or an active priority
InitClear ==
    /\ vtr \in [ListRegs : 0..MaxListRegs, PRIbits : 0..7]
    /\ lr \in [0..(LrNum(vtr) - 1) -> {ZeroLr, LrVal(33)}]
    /\ ap1r \in [0..3 -> {0, 1}]
    /\ \A n \in 0..3 : n \notin ImplementedApRegs(vtr.PRIbits + 1) => ap1r[n] = 0
    /\ icc = [ctlr |-> 2, pmr |-> PMR_VALUE, igrpen1 |-> 1,
              vmcr |-> [VPMR |-> 0, VENG1 |-> 1, VEOIM |-> 1], hcr |-> 1]
    /\ pc = "run"
    /\ last = Last("reset", 0, Ret(TRUE, 0))
    /\ log = <<>>
    /\ hist = HistRetired
    /\ GIC = NoGic
    /\ suspend_cpu = FALSE
    /\ cpus = <<>>
    /\ boot = NoBoot

\* one call of gicv3_clear_pending_irqs(); last.arg is the width it computed
ClearPendingIrqs ==
    /\ pc = "run"
    /\ last.op = "reset"
    /\ LET r == gicv3_clear_pending_irqs(lr, ap1r, vtr) IN
        /\ lr' = r.lr
        /\ ap1r' = r.ap1r
        /\ pc' = IF r.halt THEN "spin" ELSE "run"
        /\ log' = r.log
    /\ last' = Last("gicv3_clear_pending_irqs", vtr.PRIbits + 1, Ret(TRUE, 0))
    /\ UNCHANGED <<vtr, icc, hist, GIC, suspend_cpu, cpus, boot>>

NextClear == ClearPendingIrqs

SpecClear == InitClear /\ [][NextClear]_vars

-----------------------------------------------------------------------------
(* The list-register indices the callers of read_lr / write_lr pass *)

\* ICH_VTR_EL2.ListRegs is a 5-bit field; the code keeps its low 4 bits
ListRegsField == 0..31

\* the ids injected here: one that meets the index test of the scan, one
\* that never does
IdxIds == {1, 33}

\* a pool of n list registers whose first k hold a pending interrupt
Pool(n, k) == [i \in 0..(n - 1) |-> IF i < k THEN LrVal(i + 32) ELSE ZeroLr]

\* an initialised core reporting any value of the ListRegs field, with any
\* number of its list registers occupied
InitIdx ==
    /\ vtr \in [ListRegs : ListRegsField, PRIbits : {4}]
    /\ \E k \in 0..LrNum(vtr) : lr = Pool(LrNum(vtr), k)
    /\ ap1r = [n \in 0..3 |-> 0]
    /\ icc = [ctlr |-> 2, pmr |-> PMR_VALUE, igrpen1 |-> 1,
              vmcr |-> [VPMR |-> 0, VENG1 |-> 1, VEOIM |-> 1], hcr |-> 1]
    /\ pc = "run"
    /\ last = Last("reset", 0, Ret(TRUE, 0))
    /\ log = <<>>
    /\ hist = HistRetired
    /\ GIC = NoGic
    /\ suspend_cpu = FALSE
    /\ cpus = <<>>
    /\ boot = NoBoot

NextIdx ==
    \/ \E irq_id \in IdxIds : InjectIrq(irq_id)
    \/ ClearPendingIrqs

SpecIdx == InitIdx /\ [][NextIdx]_vars

-----------------------------------------------------------------------------
(* Several cores, each with its own banked registers *)

\* the cores that run, numbered from 0
SmpCores == 2

Cores == 0..(SmpCores - 1)

\* the acknowledge values the cores see
SmpIarValues == {1, 33, 1022}

\* the banked registers of one core out of reset, with two list registers
ResetCore ==
    [vtr |-> [ListRegs |-> 1, PRIbits |-> 4],
     lr  |-> [i \in 0..1 |-> ZeroLr],
     icc |-> [ctlr |-> 0, pmr |-> 0, igrpen1 |-> 0,
              vmcr |-> [VPMR |-> 0, VENG1 |-> 0, VEOIM |-> 0], hcr |-> 0],
     pc  |-> "run"]

\* the last operation, with the core that ran it
LastOn(core, op, arg, ret) == [core |-> core, op |-> op, arg |-> arg, ret |-> ret]

InitSmp ==
    /\ cpus = [c \in Cores |-> ResetCore]
    /\ last = LastOn(0, "reset", 0, Ret(TRUE, 0))
    /\ log = <<>>
    /\ vtr = ResetCore.vtr
    /\ lr = ResetCore.lr
    /\ ap1r = [n \in 0..3 |-> 0]
    /\ icc = ResetCore.icc
    /\ pc = "run"
    /\ hist = HistRetired
    /\ GIC = NoGic
    /\ suspend_cpu = FALSE
    /\ boot = NoBoot

\* core c runs irqchip_cpu_init: system-register accesses reach the bank
\* of the core that executes them
SmpCpuInit(c) ==
    /\ cpus[c].pc = "run"
    /\ cpus[c].icc.igrpen1 = 0
    /\ LET r == irqchip_cpu_init(cpus[c].icc) IN
        /\ cpus' = [cpus EXCEPT ![c].icc = r.icc]
        /\ log' = r.log
    /\ last' = LastOn(c, "irqchip_cpu_init", 0, Ret(TRUE, 0))
    /\ UNCHANGED <<vtr, lr, ap1r, icc, pc, hist, GIC, suspend_cpu, boot>>

\* core c takes an interrupt and runs gicv3_handle_irq_el1
SmpHandleIrq(c, iar) ==
    /\ cpus[c].pc = "run"
    /\ cpus[c].icc.igrpen1 = 1
    /\ LET r == gicv3_handle_irq_el1(cpus[c].lr, cpus[c].vtr, iar) IN
        /\ cpus' = [cpus EXCEPT ![c].lr = r.lr,
                                ![c].pc = IF r.halt THEN "spin" ELSE "run"]
        /\ log' = r.log
        /\ last' = LastOn(c, "gicv3_handle_irq_el1", iar, Ret(~r.halt, 0))
    /\ UNCHANGED <<vtr, lr, ap1r, icc, pc, hist, GIC, suspend_cpu, boot>>

\* core c runs gicv3_cpu_shutdown
SmpShutdown(c) ==
    /\ cpus[c].pc = "run"
    /\ cpus[c].icc.igrpen1 = 1
    /\ log' = gicv3_cpu_shutdown(cpus[c].icc)
    /\ last' = LastOn(c, "gicv3_cpu_shutdown", 0, Ret(TRUE, 0))
    /\ UNCHANGED <<vtr, lr, ap1r, icc, pc, hist, GIC, suspend_cpu, cpus, boot>>

NextSmp ==
    \/ \E c \in Cores : SmpCpuInit(c)
    \/ \E c \in Cores : \E iar \in SmpIarValues : SmpHandleIrq(c, iar)
    \/ \E c \in Cores : SmpShutdown(c)

SpecSmp == InitSmp /\ [][NextSmp]_vars

-----------------------------------------------------------------------------
(* The boot of all cores: rust_main and its barriers *)

BootCores == 0..(MAX_CPU_NUM - 1)

\* has_err() on boot state b
has_err(b) == b.ERROR_NUM # 0

\* wait_for that does not wait
wait_for_nowait(err, condition) ==
    IF err THEN "err" ELSE "ok"

\* wait_for(condition) seen by one evaluation of its loop test: "spin" while
\* there is no error and the condition holds, else Err or Ok
wait_for(err, condition) ==
    IF ~err /\ condition THEN "spin"
    ELSE IF err THEN "err" ELSE "ok"

\* wait_for_counter(counter, max_value)
wait_for_counter(b, counter, max_value) == wait_for(has_err(b), counter < max_value)

\* boot state b with core c at position p
At(b, c, p) == [b EXCEPT !.pc[c] = p]

\* where a wait of core c leaves it: in place, returned Err, or at next
AfterWait(b, c, w, next) ==
    IF w = "spin" THEN b
    ELSE IF w = "err" THEN At(b, c, "err")
    ELSE At(b, c, next)

\* wakeup_secondary_cpus: one turn of its loop, for cpu_id = b.wake; out is
\* the result of psci::cpu_on (an error other than AlreadyOn panics)
wakeup_secondary_cpus(b, this_id, out) ==
    IF b.wake >= MAX_CPU_NUM THEN At(b, this_id, "wait_entered")
    ELSE IF b.wake = this_id THEN [b EXCEPT !.wake = @ + 1]
    ELSE IF out = "err" THEN At(b, this_id, "panic")
    ELSE [b EXCEPT !.wake = @ + 1,
                   !.pc[b.wake] = IF @ = "off" THEN "start" ELSE @]

\* primary_init_early: out = "err" when system_config.check(),
\* init_hv_page_table(), cell::init() or do_cell_create() fails; todo!()
\* panics before INIT_EARLY_OK is stored
primary_init_early(b, c, out) ==
    IF out = "err" THEN At(b, c, "err")
    ELSE IF b.todo THEN At(b, c, "panic")
    ELSE [At(b, c, "per_cpu_init") EXCEPT !.INIT_EARLY_OK = 1]

\* primary_init_late
primary_init_late(b, c) == [At(b, c, "activate") EXCEPT !.INIT_LATE_OK = 1]

\* per_cpu_init: todo!() panics
per_cpu_init(b, c) ==
    IF b.todo THEN At(b, c, "panic") ELSE At(b, c, "fetch_add")

\* one step of rust_main on core c from boot state b
rust_main(b, c, out) ==
    LET is_primary == c = 0
        p == b.pc[c]
    IN
    IF p = "start" THEN
        [At(b, c, IF is_primary THEN "wakeup" ELSE "wait_entered")
            EXCEPT !.ENTERED_CPUS = @ + 1]
    ELSE IF p = "wakeup" THEN wakeup_secondary_cpus(b, c, out)
    ELSE IF p = "wait_entered" THEN
        LET w == wait_for(has_err(b), b.ENTERED_CPUS < MAX_CPU_NUM) IN
        IF w = "ok" /\ b.ENTERED_CPUS # MAX_CPU_NUM THEN At(b, c, "panic")
        ELSE AfterWait(b, c, w, "early")
    ELSE IF p = "early" THEN
        IF is_primary THEN primary_init_early(b, c, out)
        ELSE AfterWait(b, c, wait_for_counter(b, b.INIT_EARLY_OK, 1), "per_cpu_init")
    ELSE IF p = "per_cpu_init" THEN per_cpu_init(b, c)
    ELSE IF p = "fetch_add" THEN
        [At(b, c, "wait_inited") EXCEPT !.INITED_CPUS = @ + 1]
    ELSE IF p = "wait_inited" THEN
        AfterWait(b, c, wait_for_counter(b, b.INITED_CPUS, MAX_CPU_NUM), "late")
    ELSE IF p = "late" THEN
        IF is_primary THEN primary_init_late(b, c)
        ELSE AfterWait(b, c, wait_for_counter(b, b.INIT_LATE_OK, 1), "activate")
    ELSE IF p = "activate" THEN
        [At(b, c, "wait_activated") EXCEPT !.ACTIVATED_CPUS = @ + 1]
    ELSE IF p = "wait_activated" THEN
        AfterWait(b, c, wait_for_counter(b, b.ACTIVATED_CPUS, MAX_CPU_NUM), "run")
    ELSE b

\* the statics of main.rs as the loader leaves them, the primary core at the
\* entry of rust_main, the secondary cores of the set on already switched on
\* (cpu_on then answers AlreadyOn) and the others off
BootStatics(todo, on) ==
    [pc |-> [c \in BootCores |-> IF c = 0 \/ c \in on THEN "start" ELSE "off"],
     wake |-> 0,
     INITED_CPUS |-> 0, ENTERED_CPUS |-> 0, ACTIVATED_CPUS |-> 0,
     INIT_EARLY_OK |-> 0, INIT_LATE_OK |-> 0, ERROR_NUM |-> 0,
     todo |-> todo]

InitBoot ==
    /\ QuietCore
    /\ last = Last("reset", 0, Ret(TRUE, 0))
    /\ \E on \in SUBSET (BootCores \ {0}) : boot = BootStatics(TRUE, on)

\* core c runs its next step of rust_main
RustMainStep(c, out) ==
    /\ boot' = rust_main(boot, c, out)
    /\ UNCHANGED <<vtr, lr, ap1r, icc, pc, last, log, hist, GIC, suspend_cpu, cpus>>

NextBoot == \E c \in BootCores : \E out \in {"ok", "err"} : RustMainStep(c, out)

SpecBoot == InitBoot /\ [][NextBoot]_vars

\* the same boot with both todo!() placeholders taken as filled in by code
\* that returns
InitBootFilled ==
    /\ QuietCore
    /\ last = Last("reset", 0, Ret(TRUE, 0))
    /\ \E on \in SUBSET (BootCores \ {0}) : boot = BootStatics(FALSE, on)

SpecBootFilled == InitBootFilled /\ [][NextBoot]_vars

-----------------------------------------------------------------------------
(* Controller Descriptor *)

Some(x) == [some |-> TRUE, val |-> x]
None == [some |-> FALSE, val |-> 0]
\* a node without a reg property
NoReg == [some |-> FALSE, val |-> <<>>]

\* one address range of a reg property
Range(addr, size) == [starting_address |-> addr, size |-> size]

\* the controller nodes of the firmware trees explored: reg is the node's
\* reg property, if it has one
FdtNodes ==
    { [reg |-> Some(<<Range(134217728, Some(65536)), Range(134873088, Some(16121856))>>)],
      [reg |-> Some(<<Range(948961280, Some(65536)), Range(949485568, Some(786432))>>)],
      [reg |-> Some(<<Range(134217728, Some(65536))>>)],
      [reg |-> Some(<<Range(134217728, Some(65536)), Range(134873088, None)>>)],
      [reg |-> NoReg] }

NoNode == [some |-> FALSE, val |-> [reg |-> NoReg]]

\* the firmware trees explored: what find_node("/gic") and
\* find_node("/intc") yield
Fdts == [gic : {NoNode} \cup {Some(n) : n \in FdtNodes},
         intc : {NoNode} \cup {Some(n) : n \in FdtNodes}]

\* Gic::new(fdt): [ok, gic]; ok = FALSE when one of its unwraps panics
GicNew(fdt) ==
    LET gic_info == IF fdt.gic.some THEN fdt.gic ELSE fdt.intc
        regs     == gic_info.val.reg.val
        bad      == [ok |-> FALSE, gic |-> NoGic.gic]
    IN
    IF ~gic_info.some THEN bad
    ELSE IF ~gic_info.val.reg.some THEN bad
    ELSE IF Len(regs) < 2 THEN bad
    ELSE IF ~regs[1].size.some \/ ~regs[2].size.some THEN bad
    ELSE [ok  |-> TRUE,
          gic |-> [gicd_base |-> regs[1].starting_address,
                   gicr_base |-> regs[2].starting_address,
                   gicd_size |-> regs[1].size.val,
                   gicr_size |-> regs[2].size.val]]

\* init_early storing the new descriptor whether or not the cell is set
\* (a plain store in place of call_once)
init_early_overwrite(g, host_fdt) ==
    LET n == GicNew(host_fdt) IN
    IF n.ok THEN [ok |-> TRUE, cell |-> [set |-> TRUE, gic |-> n.gic]]
    ELSE [ok |-> FALSE, cell |-> g]

\* init_early(host_fdt): GIC.call_once(|| Gic::new(host_fdt)) on the cell g:
\* [ok, cell]
init_early(g, host_fdt) ==
    IF g.set THEN [ok |-> TRUE, cell |-> g]
    ELSE LET n == GicNew(host_fdt) IN
         IF n.ok THEN [ok |-> TRUE, cell |-> [set |-> TRUE, gic |-> n.gic]]
         ELSE [ok |-> FALSE, cell |-> g]

\* host_gicr_base with the assertion off by one (id <= MAX_CPU_NUM)
host_gicr_base_offbyone(g, id) ==
    IF ~(id <= MAX_CPU_NUM) THEN Ret(FALSE, 0)
    ELSE IF ~g.set THEN Ret(FALSE, 0)
    ELSE Ret(TRUE, g.gic.gicr_base + id * PER_GICR_SIZE)

\* host_gicr_base(id): Ret(ok, address); ok = FALSE when it panics
host_gicr_base(g, id) ==
    IF ~(id < MAX_CPU_NUM) THEN Ret(FALSE, 0)
    ELSE IF ~g.set THEN Ret(FALSE, 0)
    ELSE Ret(TRUE, g.gic.gicr_base + id * PER_GICR_SIZE)

host_gicd_base(g) == IF ~g.set THEN Ret(FALSE, 0) ELSE Ret(TRUE, g.gic.gicd_base)
host_gicd_size(g) == IF ~g.set THEN Ret(FALSE, 0) ELSE Ret(TRUE, g.gic.gicd_size)
host_gicr_size(g) == IF ~g.set THEN Ret(FALSE, 0) ELSE Ret(TRUE, g.gic.gicr_size)

InitDesc ==
    /\ QuietCore
    /\ boot = NoBoot
    /\ last = Last("reset", 0, Ret(TRUE, 0))

InitEarly(host_fdt) ==
    /\ pc = "run"
    /\ LET r == init_early(GIC, host_fdt) IN
        /\ GIC' = r.cell
        /\ pc' = IF r.ok THEN "run" ELSE "panic"
        /\ last' = Last("init_early", host_fdt, Ret(r.ok, 0))
    /\ UNCHANGED <<vtr, lr, ap1r, icc, log, hist, suspend_cpu, cpus, boot>>

\* an accessor call returning r: a panic stops the core
Accessor(name, arg, r) ==
    /\ pc = "run"
    /\ pc' = IF r.ok THEN "run" ELSE "panic"
    /\ last' = Last(name, arg, r)
    /\ UNCHANGED <<vtr, lr, ap1r, icc, log, hist, GIC, suspend_cpu, cpus, boot>>

HostGicrBase(id) == Accessor("host_gicr_base", id, host_gicr_base(GIC, id))
HostGicdBase == Accessor("host_gicd_base", 0, host_gicd_base(GIC))
HostGicdSize == Accessor("host_gicd_size", 0, host_gicd_size(GIC))
HostGicrSize == Accessor("host_gicr_size", 0, host_gicr_size(GIC))

NextDesc ==
    \/ \E host_fdt \in Fdts : InitEarly(host_fdt)
    \/ \E id \in 0..(MAX_CPU_NUM + MaxExtraCpu) : HostGicrBase(id)
    \/ HostGicdBase
    \/ HostGicdSize
    \/ HostGicrSize

SpecDesc == InitDesc /\ [][NextDesc]_vars

-----------------------------------------------------------------------------
(* Properties of the acknowledge / deactivate protocol and the dispatcher *)

\* C5: deactivate_irq(id) writes id to the priority-drop register first, and
\* then to the deactivate register exactly when id < 16; these are its only
\* writes.
C5_DeactivateWrites ==
    last.op = "deactivate_irq"
    => LET id   == last.arg
           eoir == Ev("write", "icc_eoir1_el1", 0, id)
           dir  == Ev("write", "icc_dir_el1", 0, id)
       IN /\ Len(log) >= 1
          /\ log[1] = eoir
          /\ id < 16 => log = <<eoir, dir>>
          /\ id >= 16 => log = <<eoir>>

\* deactivate_irq(15) has issued both writes
C5_Witness ==
    last.op = "deactivate_irq" /\ last.arg = 15 /\ Len(log) = 2

\* C6: over raw values 0 .. 0x3FF, pending_irq yields None exactly for 0x3FE
\* and 0x3FF, and Some(raw) for every raw value up to 0x3FD.
C6_PendingIrqSpurious ==
    (last.op = "pending_irq" /\ last.arg \in 0..1023)
    => /\ ~last.ret.some <=> last.arg \in {1022, 1023}
       /\ last.arg <= 1021 => last.ret = [some |-> TRUE, val |-> last.arg]

\* pending_irq has yielded Some(0x3FD)
C6_Witness ==
    last.op = "pending_irq" /\ last.arg = 1021 /\ last.ret.some

\* the positions of the log that are a call of name
CallsOf(name) == {k \in 1..Len(log) : IsEv(log[k], "call", name)}

\* C7: a dispatch of an acknowledged id in 0..7 or >= 16 reaches inject_irq,
\* and whenever a dispatch reaches inject_irq(id), the acknowledge read
\* returning id and then the priority-drop write of id went before it.
C7_DeactivateBeforeInject ==
    last.op = "gicv3_handle_irq_el1"
    => /\ (last.arg \in 0..7 \/ last.arg \in 16..1021) => CallsOf("inject_irq") # {}
       /\ \A k \in CallsOf("inject_irq") :
            /\ log[k].val = last.arg
            /\ \E a, b \in 1..(k - 1) :
                 /\ a < b
                 /\ IsEv(log[a], "read", "icc_iar1_el1") /\ log[a].val = log[k].val
                 /\ IsEv(log[b], "write", "icc_eoir1_el1") /\ log[b].val = log[k].val
       /\ \A k \in 1..Len(log) :
            IsEv(log[k], "write", "ich_lr_el2")
            => \E c \in CallsOf("inject_irq") : c < k

\* a dispatch of id 33 has written a list register
C7_Witness ==
    /\ last.op = "gicv3_handle_irq_el1"
    /\ last.arg = 33
    /\ \E k \in 1..Len(log) : IsEv(log[k], "write", "ich_lr_el2")

\* the positions of the log that are a write to reg
WritesTo(reg) == {k \in 1..Len(log) : IsEv(log[k], "write", reg)}

\* this step is a dispatch acknowledging raw value iar
DispatchStep(iar) ==
    pc = "run" /\ last'.op = "gicv3_handle_irq_el1" /\ last'.arg = iar

\* C12: a dispatch of the hypervisor event id writes the priority-drop and
\* the deactivate register first and only then calls check_events; it never
\* calls inject_irq.
C12_EventDeactivateThenDrain ==
    (last.op = "gicv3_handle_irq_el1" /\ last.arg = SGI_EVENT_ID)
    => /\ CallsOf("inject_irq") = {}
       /\ WritesTo("ich_lr_el2") = {}
       /\ CallsOf("check_events") # {}
       /\ \A c \in CallsOf("check_events") :
            /\ \E k \in WritesTo("icc_eoir1_el1") : k < c /\ log[k].val = SGI_EVENT_ID
            /\ \E k \in WritesTo("icc_dir_el1") : k < c /\ log[k].val = SGI_EVENT_ID

\* C13: after a dispatch of the hypervisor resume id the core is marked as
\* no longer suspended, and the dispatch wrote neither the priority-drop
\* nor the deactivate register nor a list register.
C13_ResumeMarksCore ==
    (last.op = "gicv3_handle_irq_el1" /\ last.arg = SGI_RESUME_ID)
    => /\ ~suspend_cpu
       /\ WritesTo("icc_eoir1_el1") = {}
       /\ WritesTo("icc_dir_el1") = {}
       /\ WritesTo("ich_lr_el2") = {}

\* C14: a dispatch of an id in 8..15 that is neither the event nor the
\* resume id only reads the acknowledge register: no write, no call, and
\* the state of the core is as before.
C14_UnclassifiedSgiDropped ==
    [][\A iar \in (8..15) \ {SGI_EVENT_ID, SGI_RESUME_ID} :
          DispatchStep(iar)
          => /\ log' = <<Ev("read", "icc_iar1_el1", 0, iar)>>
             /\ UNCHANGED <<vtr, lr, ap1r, icc, pc, hist, GIC, suspend_cpu>>]_vars

\* a dispatch of id 9 has returned on a core with an occupied slot
C14_Witness ==
    /\ last.op = "gicv3_handle_irq_el1"
    /\ last.arg = 9
    /\ \E i \in DOMAIN lr : lr[i].State # 0
    /\ Len(log) = 1

\* C15: a dispatch whose acknowledge read is spurious (>= 0x3FE) only reads
\* the acknowledge register and returns: no write, no call, every list
\* register as before, whatever the pool holds.
C15_SpuriousReturnsAtOnce ==
    [][\A iar \in 1022..1023 :
          DispatchStep(iar)
          => /\ log' = <<Ev("read", "icc_iar1_el1", 0, iar)>>
             /\ pc' = "run"
             /\ UNCHANGED <<vtr, lr, ap1r, icc, hist, GIC, suspend_cpu>>]_vars

\* a spurious dispatch has returned on a core whose pool is full
C15_Witness ==
    /\ last.op = "gicv3_handle_irq_el1"
    /\ last.arg = 1022
    /\ ELRSR(lr) = {}
    /\ pc = "run"
    /\ Len(log) = 1

\* C16 as stated: after irqchip_cpu_init the virtual priority mask is the
\* programmed threshold 0xf0 whatever ICC_PMR_EL1 held before, and virtual
\* Group-1 enable and virtual split-EOI mode are set.
C16_VirtualMaskIsProgrammedMask ==
    last.op = "irqchip_cpu_init"
    => /\ icc.vmcr.VPMR = PMR_VALUE
       /\ icc.vmcr.VENG1 = 1
       /\ icc.vmcr.VEOIM = 1

\* what the code does instead: irqchip_cpu_init leaves in the virtual priority mask the
\* low 8 bits of the value ICC_PMR_EL1 held BEFORE init, programs 0xf0 into
\* ICC_PMR_EL1, and sets virtual Group-1 enable and virtual split-EOI mode.
VirtualMaskIsPriorMask ==
    [][last'.op = "irqchip_cpu_init"
       => /\ icc'.vmcr.VPMR = icc.pmr % 256
          /\ icc'.pmr = PMR_VALUE
          /\ icc'.vmcr.VENG1 = 1
          /\ icc'.vmcr.VEOIM = 1]_vars

\* init has run on a core whose priority mask was at its reset value 0:
\* the physical mask is 0xf0 and the virtual mask is 0
VirtualMaskIsPriorMask_Witness ==
    /\ last.op = "irqchip_cpu_init"
    /\ icc.pmr = PMR_VALUE
    /\ icc.vmcr.VPMR = 0

\* the registers of the CPU-interface configuration
ConfigRegs ==
    {"icc_ctlr_el1", "icc_pmr_el1", "icc_igrpen1_el1", "ich_vmcr_el2", "ich_hcr_el2"}

\* C17: once irqchip_cpu_init has run, every dispatch (and every inject)
\* leaves the CPU-interface configuration as init programmed it: split-EOI
\* mode, priority mask 0xf0, Group-1 enabled, virtual interface enabled;
\* none of them writes a configuration register.
C17_ConfigStableAfterInit ==
    [][last'.op \in {"gicv3_handle_irq_el1", "inject_irq"}
       => /\ icc' = icc
          /\ icc'.ctlr = 2
          /\ icc'.pmr = PMR_VALUE
          /\ icc'.igrpen1 = 1
          /\ icc'.hcr = 1
          /\ \A k \in 1..Len(log') : \A reg \in ConfigRegs : ~IsEv(log'[k], "write", reg)]_vars

\* a second dispatch of id 33 has dropped its priority and re-presented it
C17_Witness ==
    /\ last.op = "gicv3_handle_irq_el1"
    /\ last.arg = 33
    /\ hist.repeat
    /\ WritesTo("icc_eoir1_el1") # {}
    /\ icc.hcr = 1

\* C18 as stated: gicv3_clear_pending_irqs zeroes exactly 1 active-priority
\* register when the reported width is <= 4 bits, exactly 2 when it is 5
\* bits, exactly 4 when it is more than 5 bits.
C18_ApRegsByWidthStated ==
    last.op = "gicv3_clear_pending_irqs"
    => Cardinality(WritesTo("ich_ap1r_el2"))
         = (IF last.arg <= 4 THEN 1 ELSE IF last.arg = 5 THEN 2 ELSE 4)

\* C18 amended: gicv3_clear_pending_irqs zeroes no active-priority register
\* when the reported width is <= 4 bits, exactly 1 (AP1R0) when it is 5
\* bits, exactly 2 (AP1R0, AP1R1) when it is 6 bits and exactly 4 when it is
\* 7 bits or more; the registers it writes read zero afterwards.
C18_ApRegsByWidth ==
    last.op = "gicv3_clear_pending_irqs"
    => LET n == Cardinality(WritesTo("ich_ap1r_el2")) IN
       /\ n = (IF last.arg <= 4 THEN 0
               ELSE IF last.arg = 5 THEN 1
               ELSE IF last.arg = 6 THEN 2 ELSE 4)
       /\ \A k \in WritesTo("ich_ap1r_el2") :
            log[k].val = 0 /\ log[k].idx < n /\ ap1r[log[k].idx] = 0

\* the routine has run on a core reporting 6 bits and wrote two registers
C18_Witness ==
    /\ last.op = "gicv3_clear_pending_irqs"
    /\ last.arg = 6
    /\ Cardinality(WritesTo("ich_ap1r_el2")) = 2
    /\ \E i \in DOMAIN lr : TRUE

-----------------------------------------------------------------------------
(* Properties of the controller descriptor *)

\* C10: with the descriptor discovered, host_gicr_base(core_index) returns
\* gicr_base + core_index * 0x20000 for core_index < MAX_CPU_NUM; for
\* core_index >= MAX_CPU_NUM it panics and returns no address.
C10_HostGicrBase ==
    last.op = "host_gicr_base"
    => /\ (last.arg < MAX_CPU_NUM /\ GIC.set)
          => last.ret = Ret(TRUE, GIC.gic.gicr_base + last.arg * 131072)
       /\ last.arg >= MAX_CPU_NUM => (~last.ret.ok /\ pc = "panic")

\* host_gicr_base(3) has returned an address past the base
C10_Witness ==
    /\ last.op = "host_gicr_base"
    /\ last.arg = 3
    /\ last.ret.ok
    /\ last.ret.val > GIC.gic.gicr_base

\* C11: the descriptor is initialize-once: the construction of the first
\* init_early that finds the cell empty is the one stored, no later step
\* changes the cell, and every accessor returns the stored fields.
C11_DescriptorInitOnce ==
    [][/\ GIC.set => GIC' = GIC
       /\ (~GIC.set /\ GIC'.set)
          => (last'.op = "init_early" /\ GIC'.gic = GicNew(last'.arg).gic)
       /\ (last'.op = "host_gicd_base" /\ last'.ret.ok)
          => last'.ret.val = GIC.gic.gicd_base
       /\ (last'.op = "host_gicd_size" /\ last'.ret.ok)
          => last'.ret.val = GIC.gic.gicd_size
       /\ (last'.op = "host_gicr_size" /\ last'.ret.ok)
          => last'.ret.val = GIC.gic.gicr_size
       /\ (last'.op = "host_gicr_base" /\ last'.ret.ok)
          => last'.ret.val = GIC.gic.gicr_base + last'.arg * 131072]_vars

\* a later init_early with a well-formed tree describing another controller
\* has returned and the cell still holds the first descriptor
C11_Witness ==
    /\ GIC.set
    /\ last.op = "init_early"
    /\ last.ret.ok
    /\ GicNew(last.arg).ok
    /\ GicNew(last.arg).gic # GIC.gic

-----------------------------------------------------------------------------
(* Properties of the list-register pool *)

\* the occupied (Pending or Active) slots of l
Occupied(l) == {i \in DOMAIN l : l[i].State \in {1, 2}}

\* some occupied slot of l holds virtual id
Holds(l, id) == \E i \in Occupied(l) : l[i].vINTID = id

\* the lowest-indexed empty slot of l (l has one)
FirstEmpty(l) == CHOOSE i \in ELRSR(l) : \A j \in ELRSR(l) : i <= j

\* this step is an inject_irq(id) call
InjectStep(id) == pc = "run" /\ last'.op = "inject_irq" /\ last'.arg = id

\* C1: while nothing was retired, at most one occupied slot holds any given
\* virtual interrupt id.
C1_OneSlotPerId ==
    ~hist.retired =>
        \A i, j \in Occupied(lr) : lr[i].vINTID = lr[j].vINTID => i = j

\* C2: inject_irq(id) directly after inject_irq(id) leaves the list
\* registers as the first call left them.
C2_InjectIdempotent ==
    [][\A id \in InjectIds :
          (last.op = "inject_irq" /\ last.arg = id /\ InjectStep(id)) => lr' = lr]_vars

\* C3: from the empty pool, after inject_irq calls with pairwise distinct ids,
\* no more of them than there are slots and nothing retired, every injected
\* id is held by an occupied slot.
C3_NoInjectedIdLost ==
    (/\ pc = "run"
     /\ ~hist.retired
     /\ ~hist.repeat
     /\ Cardinality(hist.ids) <= LrNum(vtr))
    => /\ \A id \in hist.ids : Holds(lr, id)
       /\ \A i, j \in Occupied(lr) : lr[i].vINTID = lr[j].vINTID => i = j

\* C4: inject_irq(id) with an empty slot at hand and id held by no occupied
\* slot writes the lowest-indexed empty slot with vINTID = pINTID = id,
\* group 1, hardware-mapped, Pending, and nothing else.
C4_WritesLowestEmptySlot ==
    [][\A id \in InjectIds :
          (InjectStep(id) /\ ELRSR(lr) # {} /\ ~Holds(lr, id))
          => lr' = [lr EXCEPT ![FirstEmpty(lr)] =
                        [State |-> 1, HW |-> 1, Group |-> 1, pINTID |-> id, vINTID |-> id]]]_vars

\* C9: inject_irq(id) spins forever, leaving the list registers alone,
\* exactly when no slot is empty and no occupied slot holds id; otherwise it
\* returns.
C9_SpinsExactlyOnExhaustion ==
    [][\A id \in InjectIds :
          InjectStep(id)
          => /\ (pc' = "spin") <=> (ELRSR(lr) = {} /\ ~Holds(lr, id))
             /\ (pc' = "spin") => lr' = lr]_vars

\* the active-priority registers the priority-bit width implies
ApRegsOf(bits) == IF bits <= 4 THEN {0} ELSE IF bits = 5 THEN {0, 1} ELSE {0, 1, 2, 3}

\* C8: after gicv3_cpu_shutdown every reported list register is Invalid
\* and every active-priority register implied by the width reads zero.
C8_ShutdownClearsState ==
    last.op = "gicv3_cpu_shutdown"
    => /\ \A i \in 0..(LrNum(vtr) - 1) : lr[i] = ZeroLr
       /\ \A n \in ApRegsOf(vtr.PRIbits + 1) : ap1r[n] = 0

\* C19: whatever the interleaving of the cores' operations, an operation of
\* one core leaves the list registers and CPU-interface registers of every
\* other core as they were, the acting core's registers become what the
\* operation makes of that core's own registers alone, and on every core at
\* most one occupied list register holds any given virtual interrupt id.
C19_PerCoreIsolation ==
    [][LET a == last'.core IN
       /\ \A c \in Cores \ {a} : cpus'[c] = cpus[c]
       /\ last'.op = "gicv3_handle_irq_el1"
          => cpus'[a].lr = gicv3_handle_irq_el1(cpus[a].lr, cpus[a].vtr, last'.arg).lr
       /\ last'.op = "irqchip_cpu_init"
          => cpus'[a].icc = irqchip_cpu_init(cpus[a].icc).icc
       /\ \A c \in Cores :
            \A i, j \in Occupied(cpus'[c].lr) :
                cpus'[c].lr[i].vINTID = cpus'[c].lr[j].vINTID => i = j]_vars

\* the isolation alone: a step of one core changes no register of another
CoresDoNotInterfere ==
    [][\A c \in Cores \ {last'.core} : cpus'[c] = cpus[c]]_vars

\* the positions of rust_main after the early barrier, and after the late one
PastEarly ==
    {"per_cpu_init", "fetch_add", "wait_inited", "late", "activate", "wait_activated", "run"}

PastLate == {"activate", "wait_activated", "run"}

\* the barrier core c waits at in b is met
BarrierMet(b, c) ==
    LET p == b.pc[c] IN
    IF p = "wait_entered" THEN b.ENTERED_CPUS >= MAX_CPU_NUM
    ELSE IF p = "early" THEN b.INIT_EARLY_OK >= 1
    ELSE IF p = "wait_inited" THEN b.INITED_CPUS >= MAX_CPU_NUM
    ELSE IF p = "late" THEN b.INIT_LATE_OK >= 1
    ELSE b.ACTIVATED_CPUS >= MAX_CPU_NUM

\* core c waits at a barrier in b
AtBarrier(b, c) ==
    \/ b.pc[c] \in {"wait_entered", "wait_inited", "wait_activated"}
    \/ c # 0 /\ b.pc[c] \in {"early", "late"}

\* C20: no secondary core is in or past per_cpu_init unless INIT_EARLY_OK
\* is set; the primary core is at or past primary_init_late only with
\* INITED_CPUS = MAX_CPU_NUM; no secondary core is at or past activate_vmm
\* unless INIT_LATE_OK is set; and a core leaves a barrier that is not met
\* only by returning Err, with ERROR_NUM nonzero.
C20_BootBarrierOrder ==
    [][/\ \A c \in BootCores \ {0} :
            boot'.pc[c] \in PastEarly => boot'.INIT_EARLY_OK = 1
       /\ boot'.pc[0] \in ({"late"} \cup PastLate) => boot'.INITED_CPUS = MAX_CPU_NUM
       /\ \A c \in BootCores \ {0} :
            boot'.pc[c] \in PastLate => boot'.INIT_LATE_OK = 1
       /\ \A c \in BootCores :
            (AtBarrier(boot, c) /\ boot'.pc[c] # boot.pc[c] /\ ~BarrierMet(boot, c))
            => (boot'.pc[c] = "err" /\ boot.ERROR_NUM # 0)]_vars

\* every core has entered, the primary core has left primary_init_early
\* without storing INIT_EARLY_OK, and every secondary core is held at the
\* early barrier
C20_Witness ==
    /\ boot.ENTERED_CPUS = MAX_CPU_NUM
    /\ boot.pc[0] \in {"err", "panic"}
    /\ boot.INIT_EARLY_OK = 0
    /\ \A c \in BootCores \ {0} : boot.pc[c] = "early"

\* with the todo!() placeholders filled in: every core is past the last
\* barrier
BootCompleted == \A c \in BootCores : boot.pc[c] = "run"

\* C21: one inject_irq call (direct, or made by a dispatch) changes at most
\* one list register; the one it changes was reported empty by the
\* empty-slot bitmap when the call began, so it was neither Pending nor
\* Active, and every other list register keeps its value.
C21_InjectWritesOneEmptySlot ==
    [][last'.op \in {"inject_irq", "gicv3_handle_irq_el1"}
       => /\ DOMAIN lr' = DOMAIN lr
          /\ \A i \in DOMAIN lr :
                lr'[i] # lr[i]
                => /\ i \in ELRSR(lr)
                   /\ lr[i].State \notin {1, 2}
                   /\ \A j \in DOMAIN lr \ {i} : lr'[j] = lr[j]
          /\ \A k \in 1..Len(log') :
                IsEv(log'[k], "write", "ich_lr_el2") => log'[k].idx \in ELRSR(lr)]_vars

\* inject_irq has written slot 1 while slot 0 held an Active interrupt,
\* which is still there
C21_Witness ==
    /\ last.op = "inject_irq"
    /\ WritesTo("ich_lr_el2") # {}
    /\ \A k \in WritesTo("ich_lr_el2") : log[k].idx = 1
    /\ lr[0].State = 2
    /\ lr[1].State = 1

\* C22: whatever ICH_VTR_EL2 reports, inject_irq and
\* gicv3_clear_pending_irqs pass read_lr / write_lr only indices below
\* (vtr & 0xf) + 1, so at most 15: the scan never ends in the out-of-range
\* branch, every list-register write has such an index, inject_irq spins
\* only when no slot is empty, and gicv3_clear_pending_irqs never spins.
C22_LrIndexInRange ==
    [][/\ last'.op = "inject_irq"
          => /\ InjectScan(0, -1, LrNum(vtr), ELRSR(lr), last'.arg).how # "over"
             /\ pc' = "spin" => ELRSR(lr) = {}
       /\ last'.op = "gicv3_clear_pending_irqs" => pc' = "run"
       /\ last'.op \in {"inject_irq", "gicv3_clear_pending_irqs"}
          => \A k \in 1..Len(log') :
                IsEv(log'[k], "write", "ich_lr_el2")
                => /\ log'[k].idx < (vtr.ListRegs % 16) + 1
                   /\ LrIndexOk(log'[k].idx)]_vars

\* inject_irq has scanned fifteen occupied list registers of a core that
\* reports sixteen and has written the one with index 15
C22_Witness ==
    /\ last.op = "inject_irq"
    /\ vtr.ListRegs % 16 = 15
    /\ pc = "run"
    /\ \E k \in WritesTo("ich_lr_el2") : log[k].idx = 15
    /\ \A i \in 0..14 : lr[i].State = 1

====
